---- MODULE Spec2Model ----
(***************************************************************************)
(* The download service of zhou9899/yt.  The repository holds four         *)
(* variants of the same service:                                           *)
(*   "full"   src/unnamed/part_000 lines 1-475   (search, info, download,  *)
(*            stream, cleanup; executeYtDlp)                               *)
(*   "exec"   src/unnamed/part_000 lines 477-553 (yt-dlp-exec, inline      *)
(*            cleanup timer)                                               *)
(*   "lite"   src/unnamed/part_001               (yt-<Date.now()> ids,     *)
(*            command string, no cleanup)                                  *)
(*   "simple" src/server.js                      (uuid file names, command *)
(*            string, 3 minute timeout)                                    *)
(* Two specifications share the module:                                    *)
(*   Spec      the artifact directory, the Jobs and the sweeps             *)
(*   SpecArgs  the path from a request to the external tool's arguments    *)
(***************************************************************************)
EXTENDS Integers, Sequences, FiniteSets, TLC

VARIABLES
    variant,    \* which of the four services runs
    now,        \* Date.now(), in ms since the process was started
    phase,      \* "boot" until the module's top-level code has run, then "up"
    crashed,    \* an exception escaped a timer callback: the process is gone
    files,      \* the artifact directory: file name -> [mtime, size]
    jobs,       \* the POST /download requests accepted so far, in order
    sweep,      \* the cleanup pass in progress, if any
    nextSweep,  \* when the setInterval timer is due next
    req,        \* SpecArgs: the request being handled
    args,       \* SpecArgs: the argument vector the handler has built
    safeArgs,   \* SpecArgs: executeYtDlp's safeArgs, without their quotes
    command,    \* SpecArgs: the command string given to exec
    placed,     \* SpecArgs: the caller's text as it stands in the command
    received,   \* SpecArgs: what the shell made of the command
    stage,      \* SpecArgs: "request", "built", "started", "ran", "rejected"
    served      \* SpecServe: the last answer to a retrieval request

svcVars == <<variant, now, phase, crashed, files, jobs, sweep, nextSweep>>

argsVars == <<req, args, safeArgs, command, placed, received, stage>>

vars == <<variant, now, phase, crashed, files, jobs, sweep, nextSweep,
          req, args, safeArgs, command, placed, received, stage, served>>

(***************************************************************************)
(* Bounds of the model.                                                    *)
(***************************************************************************)
MaxJobs == 1
MaxSweeps == 1
MaxMs == 1
MaxOld == 1
MaxPrefix == 2
MaxWrites == 1
MaxLen == 2

Variants == {"full", "exec", "lite", "simple"}

(***************************************************************************)
(* Cleanup policy, per variant.                                            *)
(***************************************************************************)
maxAgeFull == 2 * 60 * 60 * 1000
maxAgeSimple == 30 * 60 * 1000
maxAgeExec == 2 * 60 * 60 * 1000

maxAge(v) ==
    CASE v = "full" -> maxAgeFull
      [] v = "simple" -> maxAgeSimple
      [] v = "exec" -> maxAgeExec
      [] OTHER -> 0

sweepEveryFull == 60 * 60 * 1000
sweepEverySimple == 10 * 60 * 1000
sweepEveryExec == 3600 * 1000

sweepEvery(v) ==
    CASE v = "full" -> sweepEveryFull
      [] v = "simple" -> sweepEverySimple
      [] v = "exec" -> sweepEveryExec
      [] OTHER -> 0

\* part_001 never calls a cleanup and sets no timer.
HasSweep(v) == v \in {"full", "simple", "exec"}
\* part_000:465 and server.js:196 sweep once before listening.
HasStartupSweep(v) == v \in {"full", "simple"}
\* Only cleanupOldFiles wraps each entry (and the pass) in try/catch.
SweepCatches(v) == v \in {"full", "simple"}

\* server.js:113 is the only exec call with a timeout option.
execTimeoutSimple == 180000
HasTimeout(v) == v = "simple"

\* Two wrong readings of the test: the limit taken in seconds, and doubled.
ExpiredSeconds(v, t, mtime) == t - mtime > maxAge(v) \div 1000
ExpiredLate(v, t, mtime) == t - mtime > 2 * maxAge(v)

\* now - stats.mtimeMs > maxAge
Expired(v, t, mtime) == t - mtime > maxAge(v)

(***************************************************************************)
(* File names.  A name is [stem, ext]: the stem is the part the service    *)
(* builds from the Job's id, the ext is what follows it.  Stems are pairs  *)
(* of integers:                                                            *)
(*   full    <<p, t>>  for  `${downloadId}-${Date.now()}`                  *)
(*   exec    <<p, r>>  for  uuidv4()                                       *)
(*   simple  <<p, r>>  for  uuidv4()                                       *)
(*   lite    <<0, t>>  for  `yt-${Date.now()}`                             *)
(* A uuid is <<p, r>>: p stands for its first 8 characters, r for the      *)
(* rest.  uuidv4() returns a uuid not returned before; two uuids may still *)
(* share their first 8 characters.                                         *)
(***************************************************************************)
NoUuid == <<0, 0>>
NoFile == [stem |-> <<-1, -1>>, ext |-> "none"]
Types == {"video", "audio"}

OldNames == {[stem |-> <<-2, k>>, ext |-> "mp4"] : k \in 1..MaxOld}

\* type === "audio" ? "mp3" : "mp4"
ExtOf(type) == IF type = "audio" THEN "mp3" ELSE "mp4"

UsedUuids == {jobs[k].uuid : k \in 1..Len(jobs)}

\* uuidv4(): a uuid that no earlier call returned, with any first 8
\* characters.  Only part_000's slice(0, 8) looks at the first 8 characters,
\* so the other variants draw all their uuids with the same ones.
Prefixes(v) == IF v = "full" THEN 1..MaxPrefix ELSE {1}

FreshUuids ==
    {<<p, 1 + Cardinality({u \in UsedUuids : u[1] = p})>> : p \in Prefixes(variant)}

\* downloadId = uuidv4().slice(0, 8)
Slice8(u) == u[1]

JobStem(v, u, t) ==
    CASE v = "full" -> <<Slice8(u), t>>
      [] v = "lite" -> <<0, t>>
      [] OTHER -> u

\* The id the handler gives the Job.
JobId(v, u, t) ==
    CASE v = "full" -> <<Slice8(u), 0>>
      [] v = "lite" -> <<0, t>>
      [] OTHER -> u

\* The path handed to the tool with -o.  part_001 hands over a template
\* `${id}.%(ext)s` and has no file name of its own.
OutName(v, u, t, type) ==
    IF v = "lite" THEN NoFile
    ELSE [stem |-> JobStem(v, u, t), ext |-> ExtOf(type)]

(***************************************************************************)
(* The artifact directory.                                                 *)
(***************************************************************************)
Exists(n) == n \in DOMAIN files

WithFile(fs, n, rec) ==
    [m \in (DOMAIN fs) \cup {n} |-> IF m = n THEN rec ELSE fs[m]]

WithoutFile(fs, n) == [m \in (DOMAIN fs) \ {n} |-> fs[m]]

\* f.startsWith(id) in part_001: the id is followed by "." in every name the
\* tool derives from the template and Date.now() has a fixed number of
\* digits, so a name starts with the id exactly when its stem is the id.
StartsWith(n, stem) == n.stem = stem

\* A time before any ttl ago: the tool stamps a file with the media's
\* Last-Modified time unless told not to.
LongAgo == 0 - (2 * 60 * 60 * 1000) - 1

InitMtimes(v) ==
    IF HasSweep(v) THEN {0 - maxAge(v) - 1, 0 - maxAge(v), 0} ELSE {0}

\* failed: the entries of this pass whose examination threw (the code only
\* swallows the exception; the model keeps it to tell the two cases apart).
IdleSweep == [active |-> FALSE, todo |-> {}, at |-> 0, src |-> "none", failed |-> {}]

\* No retrieval request has been answered yet.
NoServe == [op |-> "none", name |-> NoFile, status |-> 0, count |-> 0]

InitService ==
    /\ variant \in Variants
    /\ now = 0
    /\ phase = "boot"
    /\ crashed = FALSE
    /\ \E S \in SUBSET OldNames :
         files \in [S -> {[mtime |-> m, size |-> 1] : m \in InitMtimes(variant)}]
    /\ jobs = <<>>
    /\ sweep = IdleSweep
    /\ nextSweep = 0
    /\ served = NoServe

(***************************************************************************)
(* The sweep.  cleanupOldFiles lists the directory and reads the clock     *)
(* once, then stats and unlinks entry by entry; the tool's processes run   *)
(* beside it, the service's own handlers do not (one JavaScript thread).   *)
(***************************************************************************)
BeginSweep(src) ==
    [active |-> TRUE, todo |-> DOMAIN files, at |-> now, src |-> src, failed |-> {}]

\* The clock value an entry's age is taken against: `now` is read before the
\* loop in cleanupOldFiles and inside it in the setInterval callback.
SweepClock == IF variant = "exec" THEN now ELSE sweep.at

\* Top-level code of the module: the initial cleanup, then setInterval.
Startup ==
    /\ phase = "boot"
    /\ ~sweep.active
    /\ IF HasStartupSweep(variant)
         THEN /\ sweep' = BeginSweep("startup")
              /\ UNCHANGED <<phase, nextSweep>>
         ELSE /\ phase' = "up"
              /\ nextSweep' = IF HasSweep(variant) THEN now + sweepEvery(variant) ELSE 0
              /\ UNCHANGED sweep
    /\ UNCHANGED <<variant, now, crashed, files, jobs>>

\* The setInterval callback.
IntervalSweep ==
    /\ phase = "up"
    /\ ~crashed
    /\ HasSweep(variant)
    /\ ~sweep.active
    /\ now >= nextSweep
    /\ sweep' = BeginSweep("interval")
    /\ nextSweep' = nextSweep + sweepEvery(variant)
    /\ UNCHANGED <<variant, now, phase, crashed, files, jobs>>

\* GET /cleanup
ForcedSweep ==
    /\ phase = "up"
    /\ ~crashed
    /\ variant = "full"
    /\ ~sweep.active
    /\ sweep' = BeginSweep("forced")
    /\ UNCHANGED <<variant, now, phase, crashed, files, jobs, nextSweep>>

\* An exception thrown while an entry is examined: swallowed by the entry's
\* try/catch where there is one, else it leaves the callback and ends the
\* process.
EntryFailed(f) ==
    IF SweepCatches(variant)
      THEN /\ sweep' = [sweep EXCEPT !.todo = @ \ {f}, !.failed = @ \cup {f}]
           /\ UNCHANGED crashed
      ELSE /\ sweep' = IdleSweep
           /\ crashed' = TRUE

\* One turn of files.forEach: statSync, the age test, unlinkSync.
\* unlinked = FALSE is an unlink that throws (file locked, no permission).
SweepEntry(f, unlinked) ==
    /\ sweep.active
    /\ ~crashed
    /\ f \in sweep.todo
    /\ IF ~Exists(f)
         THEN /\ EntryFailed(f)
              /\ UNCHANGED files
         ELSE IF Expired(variant, SweepClock, files[f].mtime)
           THEN IF unlinked
                  THEN /\ files' = WithoutFile(files, f)
                       /\ sweep' = [sweep EXCEPT !.todo = @ \ {f}]
                       /\ UNCHANGED crashed
                  ELSE /\ EntryFailed(f)
                       /\ UNCHANGED files
           ELSE /\ sweep' = [sweep EXCEPT !.todo = @ \ {f}]
                /\ UNCHANGED <<files, crashed>>
    /\ UNCHANGED <<variant, now, phase, jobs, nextSweep>>

\* The loop is over; after the startup pass the timer is set and the server
\* listens.
SweepEnd ==
    /\ sweep.active
    /\ ~crashed
    /\ sweep.todo = {}
    /\ sweep' = IdleSweep
    /\ IF sweep.src = "startup"
         THEN /\ phase' = "up"
              /\ nextSweep' = now + sweepEvery(variant)
         ELSE UNCHANGED <<phase, nextSweep>>
    /\ UNCHANGED <<variant, now, crashed, files, jobs>>

(***************************************************************************)
(* POST /download.  The handler runs up to its await in one go (Download), *)
(* the external tool then runs as a process of its own (ToolWrite,         *)
(* ToolRename, ToolExit, Timeout) and the handler's continuation runs when *)
(* the process has ended (CompleteFull, CompleteExec, CompleteSimple,      *)
(* CompleteLite).                                                          *)
(***************************************************************************)
NewJob(v, type, u, t) ==
    [uuid |-> u,
     id |-> JobId(v, u, t),
     stem |-> JobStem(v, u, t),
     out |-> OutName(v, u, t, type),
     type |-> type,
     startedAt |-> t,
     proc |-> "running",
     state |-> "Running",
     ref |-> NoFile,
     size |-> 0,
     isTooLarge |-> FALSE,
     message |-> "none",
     writes |-> 0]

\* Where the model's clock ends.  A Job that runs under a timeout is taken
\* on only while the clock can still reach the end of that timeout.
ClockEnd(v) == MaxSweeps * sweepEvery(v)

\* The request is accepted (a url or search term is present), the id and the
\* file name are made and the tool is started through a shell (a tool that
\* cannot be started is the shell's non-zero exit).
Download(type, u) ==
    /\ phase = "up"
    /\ ~crashed
    /\ ~sweep.active
    /\ u \in (IF variant = "lite" THEN {NoUuid} ELSE FreshUuids)
    /\ HasTimeout(variant) => now + execTimeoutSimple <= ClockEnd(variant)
    /\ jobs' = Append(jobs, NewJob(variant, type, u, now))
    /\ UNCHANGED <<variant, now, phase, crashed, files, sweep, nextSweep>>

(***************************************************************************)
(* The external tool, a black box: while it runs it may write the file it  *)
(* was asked for ("final") or a file of another name derived from it, a    *)
(* partial file or one with an extension of its own choice ("part"), with  *)
(* any size and with the current or the media's time stamp; it may rename  *)
(* its partial file to the final name; it exits with zero or non-zero      *)
(* status, or never.                                                       *)
(***************************************************************************)
ToolKinds == {"final", "part"}
ToolSizes == {0, 1}

ToolName(job, kind) ==
    IF kind = "final"
      THEN [stem |-> job.stem, ext |-> ExtOf(job.type)]
      ELSE [stem |-> job.stem, ext |-> "part"]

ToolWrite(j, kind, size, mtime) ==
    /\ j \in 1..Len(jobs)
    /\ jobs[j].proc = "running"
    /\ jobs[j].writes < MaxWrites
    /\ files' = WithFile(files, ToolName(jobs[j], kind), [mtime |-> mtime, size |-> size])
    /\ jobs' = [jobs EXCEPT ![j].writes = @ + 1]
    /\ UNCHANGED <<variant, now, phase, crashed, sweep, nextSweep>>

ToolRename(j) ==
    /\ j \in 1..Len(jobs)
    /\ jobs[j].proc = "running"
    /\ Exists(ToolName(jobs[j], "part"))
    /\ files' = WithFile(WithoutFile(files, ToolName(jobs[j], "part")),
                         ToolName(jobs[j], "final"),
                         files[ToolName(jobs[j], "part")])
    /\ UNCHANGED <<variant, now, phase, crashed, jobs, sweep, nextSweep>>

ToolExit(j, ok) ==
    /\ j \in 1..Len(jobs)
    /\ jobs[j].proc = "running"
    /\ jobs' = [jobs EXCEPT ![j].proc = IF ok THEN "exit0" ELSE "exitErr"]
    /\ UNCHANGED <<variant, now, phase, crashed, files, sweep, nextSweep>>

\* exec collects the child's stdout and stderr (the yt-dlp-exec service runs
\* its tool with stdio: 'ignore' and collects nothing).
CapturesOutput(v) == v \in {"full", "simple", "lite"}

\* The tool has written more than maxBuffer bytes (10 MiB in executeYtDlp,
\* exec's default elsewhere): exec truncates what it collected, kills the
\* child and rejects the promise.
MaxBufferExceeded(j) ==
    /\ j \in 1..Len(jobs)
    /\ CapturesOutput(variant)
    /\ jobs[j].proc = "running"
    /\ jobs' = [jobs EXCEPT ![j].proc = "overflow"]
    /\ UNCHANGED <<variant, now, phase, crashed, files, sweep, nextSweep>>

\* exec's timeout option (server.js only): the child is killed and the
\* promise rejects.
TimedOut(job) ==
    /\ HasTimeout(variant)
    /\ job.proc = "running"
    /\ now - job.startedAt >= execTimeoutSimple

Timeout(j) ==
    /\ j \in 1..Len(jobs)
    /\ ~crashed
    /\ ~sweep.active
    /\ TimedOut(jobs[j])
    /\ jobs' = [jobs EXCEPT ![j].proc = "killed"]
    /\ UNCHANGED <<variant, now, phase, crashed, files, sweep, nextSweep>>

Succeed(j, n) ==
    [jobs EXCEPT ![j].state = "Succeeded", ![j].ref = n, ![j].size = files[n].size]

Fail(j) == [jobs EXCEPT ![j].state = "Failed"]

Settled(j) ==
    /\ j \in 1..Len(jobs)
    /\ ~crashed
    /\ ~sweep.active
    /\ jobs[j].state = "Running"
    /\ jobs[j].proc # "running"

\* part_000:364-365
whatsappVideoLimit == 64 * 1024 * 1024
whatsappAudioLimit == 16 * 1024 * 1024

\* The size test with the limit itself counted as too large.
isTooLargeAtLimit(type, size) ==
    IF type = "video" THEN size >= whatsappVideoLimit ELSE size >= whatsappAudioLimit

\* part_000:366-368
isTooLarge(type, size) ==
    IF type = "video" THEN size > whatsappVideoLimit ELSE size > whatsappAudioLimit

\* part_000:385-387: "Consider lower quality." or "Download ready"
Message(flag) == IF flag THEN "lower quality" ELSE "ready"

\* part_000:360-388
SucceedFull(j, n) ==
    [Succeed(j, n) EXCEPT ![j].isTooLarge = isTooLarge(jobs[j].type, files[n].size),
                          ![j].message = Message(isTooLarge(jobs[j].type, files[n].size))]

\* part_000:353-405.  cleaned = FALSE is an unlinkSync that throws inside the
\* catch block's own try.
CompleteFull(j, cleaned) ==
    /\ variant = "full"
    /\ Settled(j)
    /\ IF jobs[j].proc = "exit0" /\ Exists(jobs[j].out)
         THEN /\ jobs' = SucceedFull(j, jobs[j].out)
              /\ UNCHANGED files
         ELSE /\ jobs' = Fail(j)
              /\ files' = IF Exists(jobs[j].out) /\ cleaned
                            THEN WithoutFile(files, jobs[j].out)
                            ELSE files
    /\ UNCHANGED <<variant, now, phase, crashed, sweep, nextSweep>>

\* part_000:526-536: the response follows the await at once.
CompleteExec(j) ==
    /\ variant = "exec"
    /\ Settled(j)
    /\ jobs' = IF jobs[j].proc = "exit0"
                 THEN [jobs EXCEPT ![j].state = "Succeeded", ![j].ref = jobs[j].out]
                 ELSE Fail(j)
    /\ UNCHANGED <<variant, now, phase, crashed, files, sweep, nextSweep>>

\* server.js:113-142
CompleteSimple(j) ==
    /\ variant = "simple"
    /\ Settled(j)
    /\ jobs' = IF jobs[j].proc = "exit0" /\ Exists(jobs[j].out)
                 THEN Succeed(j, jobs[j].out)
                 ELSE Fail(j)
    /\ UNCHANGED <<variant, now, phase, crashed, files, sweep, nextSweep>>

\* part_001:98-114: files[0] of the names that start with the id, in the
\* order readdirSync happens to return them.
Matches(job) == {n \in DOMAIN files : StartsWith(n, job.stem)}

CompleteLite(j, first) ==
    /\ variant = "lite"
    /\ Settled(j)
    /\ IF jobs[j].proc = "exit0" /\ Matches(jobs[j]) # {}
         THEN /\ first \in Matches(jobs[j])
              /\ jobs' = [jobs EXCEPT ![j].state = "Succeeded", ![j].ref = first]
         ELSE /\ first = NoFile
              /\ jobs' = Fail(j)
    /\ UNCHANGED <<variant, now, phase, crashed, files, sweep, nextSweep>>

(***************************************************************************)
(* Retrieval.  GET /stream/:filename and GET /file/:filename of part_000,  *)
(* GET /file/:filename of server.js (the file's size and date) and of      *)
(* part_001, express.static of server.js and of the yt-dlp-exec service,   *)
(* GET /health of part_000 and server.js.                                  *)
(***************************************************************************)
Routes(v) ==
    CASE v = "full" -> {"stream", "file", "health"}
      [] v = "simple" -> {"file", "static", "health"}
      [] v = "lite" -> {"file"}
      [] OTHER -> {"static"}

\* What the answer says: 404 without the file, else the file, and for
\* /health the number of entries of the directory.
Answer(op, n) ==
    IF op = "health"
      THEN [op |-> op, name |-> NoFile, status |-> 200,
            count |-> Cardinality(DOMAIN files)]
      ELSE [op |-> op, name |-> n, status |-> IF Exists(n) THEN 200 ELSE 404,
            count |-> 0]

\* A retrieval that consumes what it serves.
RetrieveAndUnlink(op, n) ==
    /\ phase = "up"
    /\ ~crashed
    /\ ~sweep.active
    /\ op \in Routes(variant)
    /\ n \in DOMAIN files \cup {NoFile}
    /\ op = "health" => n = NoFile
    /\ served' = Answer(op, n)
    /\ files' = IF op # "health" /\ Exists(n) THEN WithoutFile(files, n) ELSE files
    /\ UNCHANGED <<variant, now, phase, crashed, jobs, sweep, nextSweep>>

\* existsSync, then createReadStream / res.download / statSync; for /health
\* existsSync and readdirSync.
Retrieve(op, n) ==
    /\ phase = "up"
    /\ ~crashed
    /\ ~sweep.active
    /\ op \in Routes(variant)
    /\ n \in DOMAIN files \cup {NoFile}
    /\ op = "health" => n = NoFile
    /\ served' = Answer(op, n)
    /\ UNCHANGED <<variant, now, phase, crashed, files, jobs, sweep, nextSweep>>

(***************************************************************************)
(* Time.  A timer fires when it is due: the clock does not pass the        *)
(* setInterval timer or an exec timeout that has not fired.                *)
(***************************************************************************)
TickSteps(v) ==
    CASE v = "simple" -> {execTimeoutSimple, sweepEvery(v)}
      [] v = "lite" -> {}
      [] OTHER -> {sweepEvery(v)}

TimersAllow(t) ==
    /\ HasSweep(variant) => t <= nextSweep
    /\ \A j \in 1..Len(jobs) :
         (HasTimeout(variant) /\ jobs[j].proc = "running")
            => t <= jobs[j].startedAt + execTimeoutSimple

\* The times at which a timer that is set will fire.
DueTimes ==
    (IF HasSweep(variant) THEN {nextSweep} ELSE {})
    \cup {jobs[j].startedAt + execTimeoutSimple :
            j \in {k \in 1..Len(jobs) : HasTimeout(variant) /\ jobs[k].proc = "running"}}

DueSteps == {t - now : t \in {x \in DueTimes : x > now}}

\* The clock moves on to the next timer or by a timer's period.
Tick(d) ==
    /\ phase = "up"
    /\ ~crashed
    /\ d \in TickSteps(variant) \cup DueSteps
    /\ now + d <= ClockEnd(variant)
    /\ TimersAllow(now + d)
    /\ now' = now + d
    /\ UNCHANGED <<variant, phase, crashed, files, jobs, sweep, nextSweep>>

\* The clock moves on by a millisecond.
TickMs ==
    /\ phase = "up"
    /\ ~crashed
    /\ now % 1000 < MaxMs
    /\ TimersAllow(now + 1)
    /\ now' = now + 1
    /\ UNCHANGED <<variant, phase, crashed, files, jobs, sweep, nextSweep>>

(***************************************************************************)
(* From a request to the external tool's arguments (specification          *)
(* SpecArgs).  A string is a sequence of one-character strings.            *)
(***************************************************************************)

\* [a-zA-Z0-9_-]
IdChars ==
    {"a", "b", "c", "d", "e", "f", "g", "h", "i", "j", "k", "l", "m", "n",
     "o", "p", "q", "r", "s", "t", "u", "v", "w", "x", "y", "z", "A", "B",
     "C", "D", "E", "F", "G", "H", "I", "J", "K", "L", "M", "N", "O", "P",
     "Q", "R", "S", "T", "U", "V", "W", "X", "Y", "Z", "0", "1", "2", "3",
     "4", "5", "6", "7", "8", "9", "_", "-"}


\* The character class of the replace: backtick, $, backslash, |, ;, &, >, <.
\* A TLA+ string cannot hold the backtick; this value stands for it.
Backtick == "backtick"

Blocked == {Backtick, "$", "\\", "|", ";", "&", ">", "<"}

\* The replace without its g flag: only the first blocked character goes.
sanitizeFirstOnly(input) ==
    LET hits == {i \in 1..Len(input) : input[i] \in Blocked}
    IN IF hits = {} THEN input
       ELSE LET first == CHOOSE i \in hits : \A k \in hits : i <= k
            IN SubSeq(input, 1, first - 1) \o SubSeq(input, first + 1, Len(input))

\* input.replace(/[...]/g, ''): every character of the class is removed.
NotBlocked(c) == c \notin Blocked

sanitizeShellInput(input) == SelectSeq(input, NotBlocked)

Null == <<"null">>

\* a || b
OrElse(a, b) == IF a = Null \/ a = <<>> THEN b ELSE a

\* /youtube\.com\/shorts\/
S_shorts ==
    <<"y", "o", "u", "t", "u", "b", "e", ".", "c", "o", "m", "/", "s", "h",
      "o", "r", "t", "s", "/">>

\* /youtu\.be\/
S_youtu_be ==
    <<"y", "o", "u", "t", "u", ".", "b", "e", "/">>

\* /youtube\.com\/watch\?v=
S_watch ==
    <<"y", "o", "u", "t", "u", "b", "e", ".", "c", "o", "m", "/", "w", "a",
      "t", "c", "h", "?", "v", "=">>

\* `https://www.youtube.com/watch?v=${id}`
S_canonical ==
    <<"h", "t", "t", "p", "s", ":", "/", "/", "w", "w", "w", ".", "y", "o",
      "u", "t", "u", "b", "e", ".", "c", "o", "m", "/", "w", "a", "t", "c",
      "h", "?", "v", "=">>


\* The places where `lit` occurs in url.
Occurs(url, lit) ==
    {p \in 1..Len(url) :
        /\ p + Len(lit) - 1 <= Len(url)
        /\ SubSeq(url, p, p + Len(lit) - 1) = lit}

Min(S) == CHOOSE x \in S : \A y \in S : x <= y

\* url.match(/<lit>([a-zA-Z0-9_-]{11})/): the group of the leftmost match,
\* or Null.
Match11(url, lit) ==
    LET P == {p \in Occurs(url, lit) :
                /\ p + Len(lit) + 10 <= Len(url)
                /\ \A k \in 0..10 : url[p + Len(lit) + k] \in IdChars}
    IN IF P = {} THEN Null
       ELSE SubSeq(url, Min(P) + Len(lit), Min(P) + Len(lit) + 10)

\* How many characters of [a-zA-Z0-9_-] follow from place i on.
RECURSIVE IdRun(_, _)
IdRun(url, i) ==
    IF i <= Len(url) /\ url[i] \in IdChars THEN 1 + IdRun(url, i + 1) ELSE 0

\* url.match(/<lit>([a-zA-Z0-9_-]+)/): the group of the leftmost match, as
\* long as it can be, or Null.
MatchPlus(url, lit) ==
    LET P == {p \in Occurs(url, lit) : IdRun(url, p + Len(lit)) >= 1}
    IN IF P = {} THEN Null
       ELSE SubSeq(url, Min(P) + Len(lit),
                   Min(P) + Len(lit) + IdRun(url, Min(P) + Len(lit)) - 1)

\* normalizeUrl without its third pattern: a watch link is not recognised.
normalizeUrlNoWatch(url) ==
    IF url = <<>> THEN Null
    ELSE IF Match11(url, S_shorts) # Null THEN S_canonical \o Match11(url, S_shorts)
    ELSE IF Match11(url, S_youtu_be) # Null THEN S_canonical \o Match11(url, S_youtu_be)
    ELSE Null

\* part_000:29-45 and server.js:32-48
normalizeUrl(url) ==
    IF url = <<>> THEN Null
    ELSE IF Match11(url, S_shorts) # Null THEN S_canonical \o Match11(url, S_shorts)
    ELSE IF Match11(url, S_youtu_be) # Null THEN S_canonical \o Match11(url, S_youtu_be)
    ELSE IF Match11(url, S_watch) # Null THEN url
    ELSE Null

\* part_001:24-29
normalizeUrlLite(url) ==
    IF url = <<>> THEN Null
    ELSE IF MatchPlus(url, S_shorts) # Null THEN S_canonical \o MatchPlus(url, S_shorts)
    ELSE url

\* part_000:494-498
convertShorts(url) ==
    IF MatchPlus(url, S_shorts) # Null THEN S_canonical \o MatchPlus(url, S_shorts)
    ELSE url

normalizeFor(v, url) ==
    CASE v = "lite" -> normalizeUrlLite(url)
      [] v = "exec" -> convertShorts(url)
      [] OTHER -> normalizeUrl(url)

S_no_playlist ==
    <<"-", "-", "n", "o", "-", "p", "l", "a", "y", "l", "i", "s", "t">>

S_geo_bypass ==
    <<"-", "-", "g", "e", "o", "-", "b", "y", "p", "a", "s", "s">>

S_no_warnings ==
    <<"-", "-", "n", "o", "-", "w", "a", "r", "n", "i", "n", "g", "s">>

S_quiet ==
    <<"-", "-", "q", "u", "i", "e", "t">>

S_force_ipv4 ==
    <<"-", "-", "f", "o", "r", "c", "e", "-", "i", "p", "v", "4">>

S_concurrent_fragments ==
    <<"-", "-", "c", "o", "n", "c", "u", "r", "r", "e", "n", "t", "-", "f",
      "r", "a", "g", "m", "e", "n", "t", "s">>

S_5 ==
    <<"5">>

S_o ==
    <<"-", "o">>

S_f ==
    <<"-", "f">>

S_x ==
    <<"-", "x">>

S_audio_format ==
    <<"-", "-", "a", "u", "d", "i", "o", "-", "f", "o", "r", "m", "a", "t">>

S_mp3 ==
    <<"m", "p", "3">>

S_audio_quality ==
    <<"-", "-", "a", "u", "d", "i", "o", "-", "q", "u", "a", "l", "i", "t",
      "y">>

S_192 ==
    <<"1", "9", "2">>

S_best360 ==
    <<"b", "e", "s", "t", "[", "h", "e", "i", "g", "h", "t", "<", "=", "3",
      "6", "0", "]">>

S_best720 ==
    <<"b", "e", "s", "t", "[", "h", "e", "i", "g", "h", "t", "<", "=", "7",
      "2", "0", "]">>

S_best1080 ==
    <<"b", "e", "s", "t", "[", "h", "e", "i", "g", "h", "t", "<", "=", "1",
      "0", "8", "0", "]">>

S_best ==
    <<"b", "e", "s", "t">>

S_ytdlp ==
    <<"y", "t", "-", "d", "l", "p">>

\* path.join(TEMP_DIR, filename), for a service installed in /app
S_filepath_mp4 ==
    <<"/", "a", "p", "p", "/", "t", "e", "m", "p", "/", "0", "a", "1", "b",
      "2", "c", "3", "d", "-", "1", ".", "m", "p", "4">>

S_filepath_mp3 ==
    <<"/", "a", "p", "p", "/", "t", "e", "m", "p", "/", "0", "a", "1", "b",
      "2", "c", "3", "d", "-", "1", ".", "m", "p", "3">>

\* path.join(DOWNLOAD_DIR, filename) of part_000:509-510
S_filepath_exec_mp4 ==
    <<"/", "a", "p", "p", "/", "d", "o", "w", "n", "l", "o", "a", "d", "s", "/", "u", "1", ".", "m", "p", "4">>

S_filepath_exec_mp3 ==
    <<"/", "a", "p", "p", "/", "d", "o", "w", "n", "l", "o", "a", "d", "s", "/", "u", "1", ".", "m", "p", "3">>

S_hls_prefer_native ==
    <<"-", "-", "h", "l", "s", "-", "p", "r", "e", "f", "e", "r", "-", "n", "a", "t", "i", "v", "e">>

S_no_progress ==
    <<"-", "-", "n", "o", "-", "p", "r", "o", "g", "r", "e", "s", "s">>

\* path.join(TEMP_DIR, `${id}.%(ext)s`)
S_output_lite ==
    <<"/", "a", "p", "p", "/", "t", "e", "m", "p", "/", "y", "t", "-", "1",
      ".", "%", "(", "e", "x", "t", ")", "s">>

\* server.js:108
S_simple_audio ==
    <<"y", "t", "-", "d", "l", "p", " ", "-", "x", " ", "-", "-", "a", "u",
      "d", "i", "o", "-", "f", "o", "r", "m", "a", "t", " ", "m", "p", "3",
      " ", "-", "-", "a", "u", "d", "i", "o", "-", "q", "u", "a", "l", "i",
      "t", "y", " ", "1", "9", "2", "k", " ", "-", "o", " ", "\"">>

\* server.js:110
S_simple_video ==
    <<"y", "t", "-", "d", "l", "p", " ", "-", "f", " ", "\"", "b", "e",
      "s", "t", "[", "h", "e", "i", "g", "h", "t", "<", "=", "7", "2", "0",
      "]", "\"", " ", "-", "o", " ", "\"">>

S_quote_space_quote ==
    <<"\"", " ", "\"">>

S_quote ==
    <<"\"">>

S_space ==
    <<" ">>

\* part_001:32-43, baseArgs()
S_baseArgs ==
    <<"-", "-", "f", "o", "r", "c", "e", "-", "i", "p", "v", "4", " ", "-",
      "-", "u", "s", "e", "r", "-", "a", "g", "e", "n", "t", " ", "\"",
      "M", "o", "z", "i", "l", "l", "a", "/", "5", ".", "0", " ", "(", "M",
      "a", "c", "i", "n", "t", "o", "s", "h", ";", " ", "I", "n", "t", "e",
      "l", " ", "M", "a", "c", " ", "O", "S", " ", "X", " ", "1", "0", "_",
      "1", "5", "_", "7", ")", " ", "S", "a", "f", "a", "r", "i", "/", "6",
      "0", "5", ".", "1", ".", "1", "5", "\"", " ", "-", "-", "e", "x",
      "t", "r", "a", "c", "t", "o", "r", "-", "a", "r", "g", "s", " ",
      "\"", "y", "o", "u", "t", "u", "b", "e", ":", "p", "l", "a", "y",
      "e", "r", "_", "c", "l", "i", "e", "n", "t", "=", "w", "e", "b", "_",
      "s", "a", "f", "a", "r", "i", "\"", " ", "-", "-", "g", "e", "o",
      "-", "b", "y", "p", "a", "s", "s", " ", "-", "-", "n", "o", "-", "p",
      "l", "a", "y", "l", "i", "s", "t", " ", "-", "-", "h", "l", "s", "-",
      "p", "r", "e", "f", "e", "r", "-", "n", "a", "t", "i", "v", "e", " ",
      "-", "-", "c", "o", "n", "c", "u", "r", "r", "e", "n", "t", "-", "f",
      "r", "a", "g", "m", "e", "n", "t", "s", " ", "8", " ", "-", "-", "n",
      "o", "-", "p", "r", "o", "g", "r", "e", "s", "s">>

\* part_001:89
S_lite_format_audio ==
    <<"\"", "b", "v", "*", "[", "p", "r", "o", "t", "o", "c", "o", "l",
      "=", "m", "3", "u", "8", "]", "/", "b", "a", "*", "[", "p", "r", "o",
      "t", "o", "c", "o", "l", "=", "m", "3", "u", "8", "]", "/", "b", "e",
      "s", "t", "\"">>

\* part_001:90
S_lite_post_audio ==
    <<"-", "x", " ", "-", "-", "a", "u", "d", "i", "o", "-", "f", "o", "r",
      "m", "a", "t", " ", "m", "p", "3">>

\* part_001:92
S_lite_format_video ==
    <<"\"", "b", "v", "*", "[", "p", "r", "o", "t", "o", "c", "o", "l",
      "=", "m", "3", "u", "8", "]", "/", "b", "e", "s", "t", "\"">>

\* part_001:75
S_ytsearch1 ==
    <<"y", "t", "s", "e", "a", "r", "c", "h", "1", ":">>

\* part_001:62
S_test_search_head ==
    <<"y", "t", "-", "d", "l", "p", " ", "\"", "y", "t", "s", "e", "a",
      "r", "c", "h", "5", ":">>

S_test_search_tail ==
    <<"\"", " ", "-", "-", "p", "r", "i", "n", "t", " ", "\"", "%", "(",
      "t", "i", "t", "l", "e", ")", "s", "\"">>

\* part_000:68
S_search_head ==
    <<"y", "t", "-", "d", "l", "p", " ", "\"", "y", "t", "s", "e", "a",
      "r", "c", "h">>

S_colon ==
    <<":">>

S_search_tail ==
    <<"\"", " ", "-", "-", "p", "r", "i", "n", "t", " ", "\"", "%", "(",
      "t", "i", "t", "l", "e", ")", "s", " ", "|", "|", "|", " ", "%", "(",
      "i", "d", ")", "s", " ", "|", "|", "|", " ", "%", "(", "d", "u", "r",
      "a", "t", "i", "o", "n", ")", "s", " ", "|", "|", "|", " ", "%", "(",
      "v", "i", "e", "w", "_", "c", "o", "u", "n", "t", ")", "s", " ", "|",
      "|", "|", " ", "%", "(", "u", "p", "l", "o", "a", "d", "e", "r", ")",
      "s", " ", "|", "|", "|", " ", "%", "(", "t", "h", "u", "m", "b", "n",
      "a", "i", "l", ")", "s", "\"", " ", "-", "-", "n", "o", "-", "p",
      "l", "a", "y", "l", "i", "s", "t", " ", "-", "-", "q", "u", "i", "e",
      "t", " ", "-", "-", "n", "o", "-", "w", "a", "r", "n", "i", "n", "g",
      "s">>

\* part_000:102
S_info_head ==
    <<"y", "t", "-", "d", "l", "p", " ", "\"">>

S_info_tail ==
    <<"\"", " ", "-", "-", "p", "r", "i", "n", "t", " ", "\"", "%", "(",
      "t", "i", "t", "l", "e", ")", "s", " ", "|", "|", "|", " ", "%", "(",
      "i", "d", ")", "s", " ", "|", "|", "|", " ", "%", "(", "d", "u", "r",
      "a", "t", "i", "o", "n", ")", "s", " ", "|", "|", "|", " ", "%", "(",
      "v", "i", "e", "w", "_", "c", "o", "u", "n", "t", ")", "s", " ", "|",
      "|", "|", " ", "%", "(", "u", "p", "l", "o", "a", "d", "e", "r", ")",
      "s", " ", "|", "|", "|", " ", "%", "(", "t", "h", "u", "m", "b", "n",
      "a", "i", "l", ")", "s", " ", "|", "|", "|", " ", "%", "(", "d", "e",
      "s", "c", "r", "i", "p", "t", "i", "o", "n", ")", "s", " ", "|", "|",
      "|", " ", "%", "(", "w", "e", "b", "p", "a", "g", "e", "_", "u", "r",
      "l", ")", "s", "\"", " ", "-", "-", "n", "o", "-", "p", "l", "a",
      "y", "l", "i", "s", "t", " ", "-", "-", "q", "u", "i", "e", "t", " ",
      "-", "-", "n", "o", "-", "w", "a", "r", "n", "i", "n", "g", "s">>

\* an 11-character video identifier
S_video_id ==
    <<"d", "Q", "w", "4", "w", "9", "W", "g", "X", "c", "Q">>

S_https ==
    <<"h", "t", "t", "p", "s", ":", "/", "/">>

\* explicit format ids a caller may send
S_format_18 ==
    <<"1", "8">>

S_format_capped ==
    <<"b", "v", "*", "[", "h", "e", "i", "g", "h", "t", "<", "=", "4", "8",
      "0", "]", "+", "b", "a">>

\* limit = 10, and parseInt of a caller's limit
S_10 ==
    <<"1", "0">>

S_3 ==
    <<"3">>

S_NaN ==
    <<"N", "a", "N">>

(***************************************************************************)
(* Requests.                                                               *)
(***************************************************************************)
InputChars == {"a", "\"", " ", ";", "<"}

\* The strings of 1..n characters of InputChars.
RECURSIVE Strs(_)
Strs(n) ==
    IF n = 0 THEN {<<>>}
    ELSE Strs(n - 1) \cup {Append(s, c) : s \in {t \in Strs(n - 1) : Len(t) = n - 1}, c \in InputChars}

FreeTexts == Strs(MaxLen) \ {<<>>}

\* A link of one of the three forms, with nothing or one more character
\* after the identifier.
LinkTails == {<<>>, <<"Z">>} \cup {<<c>> : c \in InputChars}
LinkHeads == {S_https \o S_watch, S_https \o S_shorts, S_https \o S_youtu_be, S_canonical}
Links == {head \o S_video_id \o tail : head \in LinkHeads, tail \in LinkTails}

Urls == FreeTexts \cup Links
Qualities == {"low", "medium", "high", "best", "other"}
FormatIds == {<<>>, S_format_18, S_format_capped}
Limits == {S_10, S_3, S_NaN}

Request(route, url, search, type, quality, formatId, limit) ==
    [route |-> route, url |-> url, search |-> search, type |-> type,
     quality |-> quality, formatId |-> formatId, limit |-> limit]

NoRequest == Request("none", <<>>, <<>>, "video", "medium", <<>>, <<>>)

\* q.trim() === ''
Blank(q) == \A i \in 1..Len(q) : q[i] = " "

\* A url or search term that is absent or empty reads as <<>>.
NoText == {<<>>}

\* The requests a caller may send.
Requests(v) ==
    CASE v = "full" ->
           {Request("download", u, <<>>, t, q, f, <<>>) :
               u \in Urls \cup NoText, t \in Types, q \in Qualities, f \in FormatIds}
           \cup {Request("search", <<>>, s, "video", "medium", <<>>, l) :
               s \in FreeTexts \cup NoText, l \in Limits}
           \cup {Request("info", u, <<>>, "video", "medium", <<>>, <<>>) :
               u \in Urls \cup NoText}
      [] v = "simple" ->
           {Request("download", u, <<>>, t, "medium", <<>>, <<>>) :
               u \in Urls \cup NoText, t \in Types}
      [] v = "lite" ->
           {Request("download", u, <<>>, t, "medium", <<>>, <<>>) :
               u \in Urls \cup NoText, t \in Types}
           \cup {Request("download", <<>>, s, t, "medium", <<>>, <<>>) :
               s \in FreeTexts, t \in Types}
           \cup {Request("test-search", <<>>, s, "video", "medium", <<>>, <<>>) :
               s \in FreeTexts \cup NoText}
      [] v = "exec" ->
           {Request("download", u, <<>>, t, "medium", <<>>, <<>>) :
               u \in Urls \cup NoText, t \in Types}
      [] OTHER -> {}

\* The validation that opens each handler, with every request let through.
AcceptsAll(v, r) == TRUE

\* The validation that opens each handler: !url, !q || q.trim() === '',
\* !search, !input.
Accepts(v, r) ==
    CASE r.route = "search" -> r.search # <<>> /\ ~Blank(r.search)
      [] r.route = "test-search" -> r.search # <<>>
      [] r.route = "download" /\ v = "lite" ->
           r.search # <<>> \/ normalizeUrlLite(r.url) \notin {Null, <<>>}
      [] OTHER -> r.url # <<>>

\* return res.status(400).json({ error: ... })
Reject ==
    /\ stage = "request"
    /\ ~Accepts(variant, req)
    /\ stage' = "rejected"
    /\ UNCHANGED <<req, args, safeArgs, command, placed, received>>

NotRun == [status |-> "none", argv |-> <<>>]

ArgsIdle ==
    /\ req = NoRequest
    /\ args = <<>>
    /\ safeArgs = <<>>
    /\ command = <<>>
    /\ placed = <<>>
    /\ received = NotRun
    /\ stage = "idle"

(***************************************************************************)
(* The Argument Builder of part_000's POST /download.                      *)
(***************************************************************************)
\* part_000:336-350
FormatArgs(r) ==
    IF r.formatId # <<>> THEN <<S_f, r.formatId>>
    ELSE IF r.type = "audio"
      THEN <<S_x, S_audio_format, S_mp3, S_audio_quality, S_192>>
    ELSE CASE r.quality = "low" -> <<S_f, S_best360>>
           [] r.quality = "medium" -> <<S_f, S_best720>>
           [] r.quality = "high" -> <<S_f, S_best1080>>
           [] r.quality = "best" -> <<S_f, S_best>>
           [] OTHER -> <<S_f, S_best720>>

\* normalizeUrl(url) || url
Normalized(v, url) == OrElse(normalizeFor(v, url), url)

FilePath(type) == IF type = "audio" THEN S_filepath_mp3 ELSE S_filepath_mp4

\* part_000:317-350
BuildArgs(r) ==
    <<Normalized("full", r.url), S_no_playlist, S_geo_bypass, S_no_warnings, S_quiet,
      S_force_ipv4, S_concurrent_fragments, S_5, S_o, FilePath(r.type)>>
    \o FormatArgs(r)

BuildArgsFull ==
    /\ stage = "request"
    /\ variant = "full"
    /\ req.route = "download"
    /\ Accepts(variant, req)
    /\ args' = BuildArgs(req)
    /\ stage' = "built"
    /\ UNCHANGED <<req, safeArgs, command, placed, received>>

\* args.map(arg => `"${sanitizeShellInput(arg)}"`), without the quotes
SafeArgs(a) == [k \in DOMAIN a |-> sanitizeShellInput(a[k])]

\* safeArgs.join(" "), each element in its quotes
RECURSIVE JoinQuoted(_)
JoinQuoted(a) ==
    IF a = <<>> THEN <<>>
    ELSE S_quote \o Head(a) \o S_quote
         \o (IF Tail(a) = <<>> THEN <<>> ELSE S_space \o JoinQuoted(Tail(a)))

\* part_000:51-56, up to the call of exec
ExecuteYtDlp ==
    /\ stage = "built"
    /\ safeArgs' = SafeArgs(args)
    /\ command' = S_ytdlp \o S_space \o JoinQuoted(SafeArgs(args))
    /\ placed' = SafeArgs(args)[1]
    /\ stage' = "started"
    /\ UNCHANGED <<req, args, received>>

(***************************************************************************)
(* The handlers that write the command as one string.                      *)
(***************************************************************************)
StartCommand(cmd, text) ==
    /\ stage = "request"
    /\ command' = cmd
    /\ placed' = text
    /\ stage' = "started"
    /\ UNCHANGED <<req, args, safeArgs, received>>

\* server.js:99-113
CommandSimple(r) ==
    (IF r.type = "audio" THEN S_simple_audio ELSE S_simple_video)
    \o FilePath(r.type) \o S_quote_space_quote \o Normalized("simple", r.url) \o S_quote

DownloadSimple ==
    /\ variant = "simple"
    /\ req.route = "download"
    /\ Accepts(variant, req)
    /\ StartCommand(CommandSimple(req), Normalized("simple", req.url))

\* part_001:74-76: search ? `ytsearch1:${search}` : normalizeUrl(url)
InputLite(r) ==
    IF r.search # <<>> THEN S_ytsearch1 \o r.search ELSE normalizeUrlLite(r.url)

\* part_001:85-95
CommandLite(r) ==
    S_ytdlp \o S_space \o S_baseArgs \o S_space \o S_f \o S_space
    \o (IF r.type = "audio" THEN S_lite_format_audio ELSE S_lite_format_video)
    \o S_space \o (IF r.type = "audio" THEN S_lite_post_audio ELSE <<>>)
    \o S_space \o S_o \o S_space \o S_quote \o S_output_lite \o S_quote_space_quote
    \o InputLite(r) \o S_quote

DownloadLite ==
    /\ variant = "lite"
    /\ req.route = "download"
    /\ Accepts(variant, req)
    /\ StartCommand(CommandLite(req), InputLite(req))

\* part_001:56-63
TestSearchLite ==
    /\ variant = "lite"
    /\ req.route = "test-search"
    /\ Accepts(variant, req)
    /\ StartCommand(S_test_search_head \o req.search \o S_test_search_tail, req.search)

\* part_000:512-525
ArgsExec(r) ==
    <<convertShorts(r.url), S_force_ipv4, S_geo_bypass, S_no_playlist,
      S_hls_prefer_native, S_concurrent_fragments, S_5, S_no_progress, S_o,
      IF r.type = "audio" THEN S_filepath_exec_mp3 ELSE S_filepath_exec_mp4>>
    \o (IF r.type = "audio" THEN <<S_x, S_audio_format, S_mp3>> ELSE <<>>)

\* part_000:501-527: ytld(args, { stdio: 'ignore' }) spawns the tool with the
\* vector, no shell between.
DownloadExec ==
    /\ stage = "request"
    /\ variant = "exec"
    /\ req.route = "download"
    /\ Accepts(variant, req)
    /\ args' = ArgsExec(req)
    /\ placed' = convertShorts(req.url)
    /\ received' = [status |-> "ok", argv |-> ArgsExec(req)]
    /\ stage' = "ran"
    /\ UNCHANGED <<req, safeArgs, command>>

\* part_000:64-70, called from GET /search with parseInt(limit)
SearchFull ==
    /\ variant = "full"
    /\ req.route = "search"
    /\ Accepts(variant, req)
    /\ StartCommand(S_search_head \o req.limit \o S_colon
                      \o sanitizeShellInput(req.search) \o S_search_tail,
                    sanitizeShellInput(req.search))

\* part_000:99-104, called from GET /info with normalizeUrl(url) || url; the
\* second command (part_000:110) places the same sanitized text.
InfoFull ==
    /\ variant = "full"
    /\ req.route = "info"
    /\ Accepts(variant, req)
    /\ StartCommand(S_info_head \o sanitizeShellInput(Normalized("full", req.url))
                      \o S_info_tail,
                    sanitizeShellInput(Normalized("full", req.url)))

(***************************************************************************)
(* child_process.exec hands the command to /bin/sh -c.  The shell splits   *)
(* it into words at unquoted spaces; a double quote opens or closes a      *)
(* quoted stretch, and one left open makes the shell reject the line;      *)
(* inside a quoted stretch $, backtick and \ are still acted on; outside   *)
(* one, every metacharacter is.  status "ok": the words are the tool's     *)
(* arguments as written; "syntax": the shell rejects the command;          *)
(* "interpreted": the shell acted on a metacharacter.                      *)
(***************************************************************************)
ShellMeta == Blocked \cup {"(", ")", "'", "*", "?", "["}
QuotedMeta == {"$", Backtick, "\\"}

NotQuote(c) == c # "\""

ShellScan(cmd) ==
    LET quotes == {k \in 1..Len(cmd) : cmd[k] = "\""}
        inside(i) == Cardinality({k \in quotes : k < i}) % 2 = 1
        seps == {i \in 1..Len(cmd) : cmd[i] = " " /\ ~inside(i)}
        read == {i \in 1..Len(cmd) :
                    IF inside(i) THEN cmd[i] \in QuotedMeta ELSE cmd[i] \in ShellMeta}
        starts == {i \in (1..Len(cmd)) \ seps : i = 1 \/ (i - 1) \in seps}
        last(b) == CHOOSE e \in b..Len(cmd) :
                      /\ (e = Len(cmd) \/ (e + 1) \in seps)
                      /\ \A k \in b..e : k \notin seps
        nth(n) == CHOOSE b \in starts : Cardinality({t \in starts : t < b}) = n - 1
    IN IF Cardinality(quotes) % 2 = 1 THEN [status |-> "syntax", argv |-> <<>>]
       ELSE IF read # {} THEN [status |-> "interpreted", argv |-> <<>>]
       ELSE [status |-> "ok",
             argv |-> [n \in 1..Cardinality(starts) |->
                          SelectSeq(SubSeq(cmd, nth(n), last(nth(n))), NotQuote)]]

\* What the program named by the first word receives.
ShellRun(cmd) ==
    LET r == ShellScan(cmd)
    IN IF r.status = "ok" /\ r.argv # <<>>
         THEN [status |-> "ok", argv |-> Tail(r.argv)]
         ELSE r

RunShell ==
    /\ stage = "started"
    /\ received' = ShellRun(command)
    /\ stage' = "ran"
    /\ UNCHANGED <<req, args, safeArgs, command, placed>>

InitArgs ==
    /\ variant \in Variants
    /\ now = 0
    /\ phase = "boot"
    /\ crashed = FALSE
    /\ files = <<>>
    /\ jobs = <<>>
    /\ sweep = IdleSweep
    /\ nextSweep = 0
    /\ served = NoServe
    /\ req \in Requests(variant)
    /\ args = <<>>
    /\ safeArgs = <<>>
    /\ command = <<>>
    /\ placed = <<>>
    /\ received = NotRun
    /\ stage = "request"

NextArgs ==
    \/ BuildArgsFull /\ UNCHANGED <<svcVars, served>>
    \/ ExecuteYtDlp /\ UNCHANGED <<svcVars, served>>
    \/ DownloadSimple /\ UNCHANGED <<svcVars, served>>
    \/ DownloadLite /\ UNCHANGED <<svcVars, served>>
    \/ DownloadExec /\ UNCHANGED <<svcVars, served>>
    \/ TestSearchLite /\ UNCHANGED <<svcVars, served>>
    \/ SearchFull /\ UNCHANGED <<svcVars, served>>
    \/ InfoFull /\ UNCHANGED <<svcVars, served>>
    \/ RunShell /\ UNCHANGED <<svcVars, served>>
    \/ Reject /\ UNCHANGED <<svcVars, served>>

SpecArgs == InitArgs /\ [][NextArgs]_vars

(***************************************************************************)
(* The specifications of the service.                                      *)
(***************************************************************************)
Init == InitService /\ ArgsIdle

Next ==
    \/ Startup /\ UNCHANGED <<argsVars, served>>
    \/ IntervalSweep /\ UNCHANGED <<argsVars, served>>
    \/ ForcedSweep /\ UNCHANGED <<argsVars, served>>
    \/ \E f \in sweep.todo, unlinked \in BOOLEAN :
         SweepEntry(f, unlinked) /\ UNCHANGED <<argsVars, served>>
    \/ SweepEnd /\ UNCHANGED <<argsVars, served>>
    \/ \E type \in Types, u \in FreshUuids \cup {NoUuid} :
         Len(jobs) < MaxJobs /\ Download(type, u) /\ UNCHANGED <<argsVars, served>>
    \/ \E j \in 1..Len(jobs), kind \in ToolKinds, size \in ToolSizes, mtime \in {now, LongAgo} :
         ToolWrite(j, kind, size, mtime) /\ UNCHANGED <<argsVars, served>>
    \/ \E j \in 1..Len(jobs) : ToolRename(j) /\ UNCHANGED <<argsVars, served>>
    \/ \E j \in 1..Len(jobs), ok \in BOOLEAN : ToolExit(j, ok) /\ UNCHANGED <<argsVars, served>>
    \/ \E j \in 1..Len(jobs) : Timeout(j) /\ UNCHANGED <<argsVars, served>>
    \/ \E j \in 1..Len(jobs) : MaxBufferExceeded(j) /\ UNCHANGED <<argsVars, served>>
    \/ \E j \in 1..Len(jobs), cleaned \in BOOLEAN :
         CompleteFull(j, cleaned) /\ UNCHANGED <<argsVars, served>>
    \/ \E j \in 1..Len(jobs) : CompleteExec(j) /\ UNCHANGED <<argsVars, served>>
    \/ \E j \in 1..Len(jobs) : CompleteSimple(j) /\ UNCHANGED <<argsVars, served>>
    \/ \E j \in 1..Len(jobs), first \in DOMAIN files \cup {NoFile} :
         CompleteLite(j, first) /\ UNCHANGED <<argsVars, served>>
    \/ \E d \in TickSteps(variant) \cup DueSteps : Tick(d) /\ UNCHANGED <<argsVars, served>>
    \/ TickMs /\ UNCHANGED <<argsVars, served>>

Spec == Init /\ [][Next]_vars

(***************************************************************************)
(* The same service with what Node's event loop guarantees: a callback     *)
(* that is ready runs (a handler's continuation after its await, the       *)
(* kill at the exec timeout, the turns of a sweep), and time passes.       *)
(* Nothing makes a caller send a request or the external tool write or     *)
(* exit.                                                                   *)
(***************************************************************************)
Continuation(j) ==
    \/ \E cleaned \in BOOLEAN : CompleteFull(j, cleaned)
    \/ CompleteExec(j)
    \/ CompleteSimple(j)
    \/ \E first \in DOMAIN files \cup {NoFile} : CompleteLite(j, first)

SweepTurn ==
    \/ Startup
    \/ IntervalSweep
    \/ \E f \in sweep.todo, unlinked \in BOOLEAN : SweepEntry(f, unlinked)
    \/ SweepEnd

ClockTurn ==
    \/ \E d \in TickSteps(variant) \cup DueSteps : Tick(d)
    \/ TickMs

EventLoop ==
    /\ \A j \in 1..MaxJobs : SF_vars(Continuation(j) /\ UNCHANGED <<argsVars, served>>)
    /\ \A j \in 1..MaxJobs : SF_vars(Timeout(j) /\ UNCHANGED <<argsVars, served>>)
    /\ WF_vars(SweepTurn /\ UNCHANGED <<argsVars, served>>)
    /\ WF_vars(ClockTurn /\ UNCHANGED <<argsVars, served>>)

SpecLive == Init /\ [][Next]_vars /\ EventLoop

(***************************************************************************)
(* Concurrent Job creations: one Job more, an empty directory at the       *)
(* start, and the clock stopped before the first timer is due.             *)
(***************************************************************************)
InitJobs ==
    /\ InitService
    /\ files = <<>>
    /\ ArgsIdle

(***************************************************************************)
(* The service with its retrieval routes, beside Jobs and sweeps, from an  *)
(* empty directory.                                                        *)
(***************************************************************************)
NextServe ==
    \/ Next
    \/ \E op \in Routes(variant), n \in DOMAIN files \cup {NoFile} :
         Retrieve(op, n) /\ UNCHANGED argsVars

SpecServe == InitJobs /\ [][NextServe]_vars

NextJobs ==
    \/ Startup /\ UNCHANGED <<argsVars, served>>
    \/ SweepEnd /\ UNCHANGED <<argsVars, served>>
    \/ \E type \in Types, u \in FreshUuids \cup {NoUuid} :
         Len(jobs) < MaxJobs + 1 /\ Download(type, u) /\ UNCHANGED <<argsVars, served>>
    \/ \E j \in 1..Len(jobs), kind \in ToolKinds, size \in ToolSizes, mtime \in {now, LongAgo} :
         ToolWrite(j, kind, size, mtime) /\ UNCHANGED <<argsVars, served>>
    \/ \E j \in 1..Len(jobs) : ToolRename(j) /\ UNCHANGED <<argsVars, served>>
    \/ \E j \in 1..Len(jobs), ok \in BOOLEAN : ToolExit(j, ok) /\ UNCHANGED <<argsVars, served>>
    \/ \E j \in 1..Len(jobs), cleaned \in BOOLEAN :
         CompleteFull(j, cleaned) /\ UNCHANGED <<argsVars, served>>
    \/ \E j \in 1..Len(jobs) : CompleteExec(j) /\ UNCHANGED <<argsVars, served>>
    \/ \E j \in 1..Len(jobs) : CompleteSimple(j) /\ UNCHANGED <<argsVars, served>>
    \/ \E j \in 1..Len(jobs), first \in DOMAIN files \cup {NoFile} :
         CompleteLite(j, first) /\ UNCHANGED <<argsVars, served>>
    \/ TickMs /\ UNCHANGED <<argsVars, served>>

SpecJobs == InitJobs /\ [][NextJobs]_vars

(***************************************************************************)
(* part_000's POST /download with files of the sizes at which its size     *)
(* test turns.                                                             *)
(***************************************************************************)
CeilingSizes ==
    {whatsappAudioLimit, whatsappAudioLimit + 1, whatsappVideoLimit, whatsappVideoLimit + 1}

InitSizes == InitJobs /\ variant = "full"

NextSizes ==
    \/ Startup /\ UNCHANGED <<argsVars, served>>
    \/ SweepEnd /\ UNCHANGED <<argsVars, served>>
    \/ \E type \in Types, u \in FreshUuids :
         Len(jobs) < MaxJobs /\ Download(type, u) /\ UNCHANGED <<argsVars, served>>
    \/ \E j \in 1..Len(jobs), kind \in ToolKinds, size \in ToolSizes \cup CeilingSizes :
         ToolWrite(j, kind, size, now) /\ UNCHANGED <<argsVars, served>>
    \/ \E j \in 1..Len(jobs) : ToolRename(j) /\ UNCHANGED <<argsVars, served>>
    \/ \E j \in 1..Len(jobs), ok \in BOOLEAN : ToolExit(j, ok) /\ UNCHANGED <<argsVars, served>>
    \/ \E j \in 1..Len(jobs), cleaned \in BOOLEAN :
         CompleteFull(j, cleaned) /\ UNCHANGED <<argsVars, served>>
    \/ TickMs /\ UNCHANGED <<argsVars, served>>

SpecSizes == InitSizes /\ [][NextSizes]_vars

(***************************************************************************)
(* Claims about the sweep (specification Spec).                            *)
(***************************************************************************)
\* A step of a pass in progress.
SweepStep == sweep.active /\ sweep' # sweep

\* The pass has dealt with entry f and goes on.
EntryStep(f) ==
    /\ sweep.active
    /\ sweep'.active
    /\ f \in sweep.todo
    /\ f \notin sweep'.todo

Age(f) == SweepClock - files[f].mtime

\* C1: no step of any sweep (startup, interval, forced) removes or changes a
\* file whose age, sweep time minus last-modified time, is less than ttl,
\* whatever the state of the Job that wrote it.
C1_YoungFileSurvivesSweep ==
    [][SweepStep =>
         \A f \in DOMAIN files :
            Age(f) < maxAge(variant) => (f \in DOMAIN files' /\ files'[f] = files[f])]_vars

\* C1 witness: an interval sweep has passed over the file of a Job that is
\* still running, written before the sweep began and younger than ttl.
C1_Witness ==
    /\ sweep.active
    /\ sweep.src = "interval"
    /\ \E j \in 1..Len(jobs) :
         /\ jobs[j].state = "Running"
         /\ jobs[j].out \in DOMAIN files
         /\ jobs[j].out \notin sweep.todo
         /\ files[jobs[j].out].mtime < sweep.at
         /\ Age(jobs[j].out) < maxAge(variant)

C3_DistinctIds ==
    \A i, j \in 1..Len(jobs) :
        i # j => /\ jobs[i].id # jobs[j].id
                 /\ ToolName(jobs[i], "final") # ToolName(jobs[j], "final")

\* C4: no external process is still running once the wall-clock timeout has
\* expired: it has exited or it has been terminated.
C4_RunsUnderTimeout ==
    \A j \in 1..Len(jobs) :
        jobs[j].proc = "running" => now - jobs[j].startedAt <= execTimeoutSimple

Responds(j, state) ==
    /\ jobs[j].state = "Running"
    /\ jobs'[j].state = state

\* C5: when a Job's 500 response is sent, no file derived from the Job's id
\* is in the directory and the response refers to no artifact.
C5_FailedLeavesNothing ==
    [][\A j \in 1..Len(jobs) :
         Responds(j, "Failed")
            => /\ \A n \in DOMAIN files' : ~StartsWith(n, jobs[j].stem)
               /\ jobs'[j].ref = NoFile]_vars

\* C6: when a Job's success response is sent, the file it refers to exists
\* and is not empty.
C6_SuccessHasFile ==
    [][\A j \in 1..Len(jobs) :
         Responds(j, "Succeeded")
            => /\ jobs'[j].ref \in DOMAIN files'
               /\ files'[jobs'[j].ref].size > 0]_vars


(***************************************************************************)
(* Claims about the command line (SpecArgs).                               *)
(***************************************************************************)
Started == stage \in {"started", "ran"}

\* out is input with exactly the blocked characters taken out: the kept
\* positions of input, in order, are the positions of out.
Sanitized(input, out) ==
    LET keep == {i \in 1..Len(input) : input[i] \notin Blocked}
    IN /\ \A i \in 1..Len(out) : out[i] \notin Blocked
       /\ Len(out) = Cardinality(keep)
       /\ \A i \in keep : out[Cardinality({k \in keep : k <= i})] = input[i]

\* C7: whatever sanitizeShellInput is given (every element of the argument
\* vector in executeYtDlp, the query in searchYoutube, the url in
\* getVideoInfo), what it returns holds no blocked character and is the input
\* with exactly the blocked characters removed, the others kept in order and
\* multiplicity.
C7_SanitizerRemovesExactlyBlocked ==
    (Started /\ variant = "full") =>
        CASE req.route = "download" ->
               /\ Len(safeArgs) = Len(args)
               /\ \A k \in 1..Len(args) : Sanitized(args[k], safeArgs[k])
          [] req.route = "search" -> Sanitized(req.search, placed)
          [] req.route = "info" -> Sanitized(Normalized("full", req.url), placed)
          [] OTHER -> TRUE

\* executeYtDlp has sanitized a url that holds blocked characters among
\* others.
C7_Witness ==
    /\ Started
    /\ variant = "full"
    /\ req.route = "download"
    /\ \E i, k \in 1..Len(args[1]) : args[1][i] \in Blocked /\ args[1][k] \notin Blocked
    /\ safeArgs[1] # args[1]
    /\ safeArgs[1] # <<>>

\* C8: no invocation is started whose command holds a caller's url or search
\* term that has not been through the sanitizer, so the caller's text as it
\* stands in the command holds no blocked character.
C8_CallerTextSanitized ==
    Started => \A i \in 1..Len(placed) : placed[i] \notin Blocked

\* C9: the arguments the tool receives are the vector that executeYtDlp was
\* handed, element for element, whatever the caller sent.
C9_ToolReceivesVector ==
    (stage = "ran" /\ variant = "full" /\ req.route = "download") =>
        /\ received.status = "ok"
        /\ Len(received.argv) = Len(safeArgs)
        /\ \A k \in 1..Len(safeArgs) : received.argv[k] = safeArgs[k]

\* C10: when the shell has passed the vector on whole, the format arguments
\* the tool receives (everything after -o filepath) are the ones the handler
\* selected.
C10_FormatReachesTool ==
    (/\ stage = "ran" /\ variant = "full" /\ req.route = "download"
     /\ received.status = "ok"
     /\ Len(received.argv) = Len(args)) =>
        \A k \in 11..Len(args) : received.argv[k] = args[k]

(***************************************************************************)
(* Claims about the handlers' treatment of a link (SpecArgs).              *)
(***************************************************************************)
\* url.startsWith(lit)
Begins(url, lit) == Len(url) >= Len(lit) /\ SubSeq(url, 1, Len(lit)) = lit

\* The url as POST /download holds it after normalizeUrl.
NormalizedOnce == IF variant = "full" THEN args[1] ELSE placed

LinkHandled ==
    /\ stage # "request"
    /\ req.route = "download"
    /\ req.search = <<>>
    /\ req.url \in Links

\* C11: for a url of one of the link forms, normalizing the normalized url
\* gives the normalized url again, and a url that already starts with the
\* canonical watch form comes back unchanged.
C11_NormalizerIdempotent ==
    LinkHandled =>
        /\ normalizeFor(variant, NormalizedOnce) = NormalizedOnce
        /\ (Begins(req.url, S_canonical) => NormalizedOnce = req.url)

\* A shorts or youtu.be link has been rewritten by part_000's handler.
C11_Witness ==
    /\ LinkHandled
    /\ variant = "full"
    /\ NormalizedOnce # req.url
    /\ NormalizedOnce = S_canonical \o S_video_id

\* The caller's source: the search term where the handler reads one, else the
\* url.
SourceEmpty(r) == r.url = <<>> /\ r.search = <<>>

\* normalizeUrl finds none of its patterns in url.
Unrecognized(v, url) ==
    IF v \in {"lite", "exec"} THEN MatchPlus(url, S_shorts) = Null
    ELSE /\ Match11(url, S_shorts) = Null
         /\ Match11(url, S_youtu_be) = Null
         /\ Match11(url, S_watch) = Null

\* C12: a POST /download with neither url nor search term is answered 400
\* with no Job id drawn, no command built or started and the directory as it
\* was; a url that is not empty and matches no pattern is not rejected and
\* goes on unchanged.
C12_EmptyRejectedOthersPass ==
    [][(stage = "request" /\ req.route = "download") =>
          /\ SourceEmpty(req) =>
               /\ stage' = "rejected"
               /\ UNCHANGED <<jobs, files, args, safeArgs, command, received>>
          /\ (req.url # <<>> /\ req.search = <<>> /\ Unrecognized(variant, req.url)) =>
               /\ stage' # "rejected"
               /\ NormalizedOnce' = req.url]_vars

\* A request without a source has been answered 400.
C12_Witness ==
    /\ stage = "rejected"
    /\ req.route = "download"
    /\ SourceEmpty(req)
    /\ command = <<>>

(***************************************************************************)
(* Claims about the outcome of a Job.                                      *)
(***************************************************************************)
\* C13: when part_001's handler answers a clean exit, the file it names is a
\* largest one of those whose names start with the Job's id.
C13_ResolverPicksLargest ==
    [][\A j \in 1..Len(jobs) :
         (variant = "lite" /\ Responds(j, "Succeeded"))
            => \A n \in Matches(jobs[j]) :
                  files[jobs'[j].ref].size >= files[n].size]_vars

\* C14: a Job whose tool exited with status zero and left no file of the
\* Job's in the directory is answered 500, with no artifact reference.
C14_MissingArtifactFails ==
    [][\A j \in 1..Len(jobs) :
         (/\ jobs[j].state = "Running"
          /\ jobs'[j].state # "Running"
          /\ jobs[j].proc = "exit0"
          /\ Matches(jobs[j]) = {})
            => /\ jobs'[j].state = "Failed"
               /\ jobs'[j].ref = NoFile]_vars

Terminal == {"Succeeded", "Failed"}

\* C15: a Job that has been answered keeps its outcome and is answered no
\* second time, and every Job that was taken on is answered in the end,
\* Succeeded or Failed.
C15_JobEndsOnce ==
    /\ [][\A j \in 1..Len(jobs) :
            jobs[j].state \in Terminal => jobs'[j] = jobs[j]]_vars
    /\ \A j \in 1..MaxJobs :
         (Len(jobs) >= j /\ jobs[j].state = "Running")
            ~> (Len(jobs) >= j /\ jobs[j].state \in Terminal)

(***************************************************************************)
(* Claims about retrieval (SpecServe).                                     *)
(***************************************************************************)
\* C16: answering GET /stream/:filename, GET /file/:filename, a static file
\* or GET /health leaves the directory as it was, names, sizes and
\* last-modified times, so a file that was served is still there.
C16_RetrievalKeepsStore ==
    [][served' # served =>
          /\ files' = files
          /\ served'.status = 200 /\ served'.op # "health"
                => served'.name \in DOMAIN files']_vars

\* A file has been served while a Job's tool is running.
C16_Witness ==
    /\ served.op \in {"stream", "file"}
    /\ served.status = 200
    /\ served.name \in DOMAIN files
    /\ \E j \in 1..Len(jobs) : jobs[j].proc = "running"

(***************************************************************************)
(* Claims about the size advice (SpecSizes).                               *)
(***************************************************************************)
\* C17: a Job of part_000 whose file is over the size limit is still
\* answered as a success; its isTooLarge is true exactly when the file has
\* more bytes than 64 MiB for video, 16 MiB for audio, and its message
\* advises a lower quality exactly when isTooLarge is true.
C17_TooLargeIsAdvice ==
    [][\A j \in 1..Len(jobs) :
         (variant = "full" /\ Settled(j) /\ jobs'[j].state # "Running"
          /\ jobs[j].proc = "exit0" /\ Exists(jobs[j].out))
            => /\ jobs'[j].state = "Succeeded"
               /\ jobs'[j].isTooLarge
                    <=> (files[jobs[j].out].size >
                           (IF jobs[j].type = "video" THEN 67108864 ELSE 16777216))
               /\ (jobs'[j].message = "lower quality") <=> jobs'[j].isTooLarge]_vars

\* A video of exactly 64 MiB has been answered without the flag, or an audio
\* file of one byte more than 16 MiB with it.
C17_Witness ==
    \E j \in 1..Len(jobs) :
        /\ jobs[j].state = "Succeeded"
        /\ \/ jobs[j].type = "video" /\ jobs[j].size = 67108864 /\ ~jobs[j].isTooLarge
           \/ jobs[j].type = "audio" /\ jobs[j].size = 16777217 /\ jobs[j].isTooLarge

(***************************************************************************)
(* Claims about sweeps beside Jobs.                                        *)
(***************************************************************************)
\* C18: no step of a sweep removes a file of a Job whose tool is still
\* running.
C18_SweepSparesRunningJob ==
    [][SweepStep =>
         \A f \in DOMAIN files :
            (\E j \in 1..Len(jobs) :
                /\ jobs[j].state = "Running"
                /\ jobs[j].proc = "running"
                /\ StartsWith(f, jobs[j].stem))
               => f \in DOMAIN files']_vars

\* C19: whatever happens to one entry of a sweep (it is gone when statSync
\* looks, its unlink throws), the process lives on and the pass stays at
\* work until it has dealt with every entry it listed.
C19_SweepSurvivesFailure ==
    [][SweepStep =>
         /\ ~crashed'
         /\ sweep.todo # {} => sweep'.active]_vars

(***************************************************************************)
(* Claims about the tool's captured output.                                *)
(***************************************************************************)
\* C20: output beyond the capture buffer does not end the tool's process,
\* and no Job is answered Failed because of it.
C20_OverflowOnlyTruncates ==
    [][\A j \in 1..Len(jobs) :
         /\ jobs'[j].proc # "overflow"
         /\ Responds(j, "Failed") => jobs[j].proc # "overflow"]_vars
(***************************************************************************)
(* Claims about the canonical form of a link (SpecArgs).                   *)
(***************************************************************************)
\* The links of the three forms whose identifier is S_video_id and nothing
\* more: the identifier ends the link or a character outside [a-zA-Z0-9_-]
\* follows it.
LinksOfVideo ==
    {head \o S_video_id \o tail :
        head \in LinkHeads, tail \in {t \in LinkTails : t = <<>> \/ t[1] \notin IdChars}}

\* C21: a url of one of the three link forms that carries the identifier V
\* leaves the handler's normalizer as https://www.youtube.com/watch?v=V, so
\* that every such url with the same V gives the same string.
C21_LinkRewrittenToCanonical ==
    (Started /\ req.route = "download" /\ req.search = <<>> /\ req.url \in LinksOfVideo)
        => NormalizedOnce = S_canonical \o S_video_id
(***************************************************************************)
(* Claims about the life of a returned artifact.                           *)
(***************************************************************************)
\* C22: the file that part_000's POST /download has answered with stays in
\* the directory, so that GET /stream/:filename and GET /file/:filename
\* answer it and not 404, for as long as the clock is within maxAge of the
\* Job (the answer is sent no earlier than the request arrives, so a time
\* within maxAge of the request is within maxAge of the answer), whatever
\* time stamp the tool gave the file.
C22_ArtifactOutlivesTtl ==
    \A j \in 1..Len(jobs) :
        (/\ variant = "full"
         /\ jobs[j].state = "Succeeded"
         /\ now - jobs[j].startedAt <= maxAge(variant))
            => /\ Answer("stream", jobs[j].ref).status = 200
               /\ Answer("file", jobs[j].ref).status = 200

====
